---------------------------- MODULE Spec2Model ----------------------------
(***************************************************************************)
(* Model of src/app/page.tsx (audio-speed-manipulator): the Home           *)
(* component's handlers (handleFileChange, handleSpeedChange,              *)
(* handleDownload with its ScriptProcessorNode callback) and the WAV       *)
(* encoder (encodeWAV, writeString).                                       *)
(*                                                                         *)
(* Numbers.  playbackRate is held in tenths (the slider's step is 0.1):    *)
(* 5 is 0.5, 20 is 2.0.  A numeric sample is held in units of 1/SampleDen. *)
(* Divisions are exact integer arithmetic on these scaled values; the      *)
(* rounding of IEEE doubles is not modelled.  All byte-level quantities    *)
(* stay below 2^31, so the ToUint32 wrap of DataView.setUint32 never       *)
(* applies within the bounds.                                              *)
(***************************************************************************)
EXTENDS Integers, Sequences, FiniteSets, TLC

(***************************************************************************)
(* Bounds of the model.                                                    *)
(***************************************************************************)
MaxChannels == 2
MaxFrames == 2
SampleDen == 10
MaxBlocks == 2
MaxFileChanges == 2
MaxDownloads == 2

(***************************************************************************)
(* State of the Home component (lines 11-19) and of its handlers in        *)
(* flight.  isDarkMode only styles the page and is left out; the audio     *)
(* element's playbackRate (line 62) always equals playbackRate and is not  *)
(* kept apart.                                                             *)
(***************************************************************************)
VARIABLES
  audioFile,        \* useState<File | null>: NoFile or a file
  playbackRate,     \* useState(1), in tenths
  originalDuration, \* useState(0): audio.duration, in sample frames
  isProcessing,     \* useState(false)
  audioUrl,         \* useState<string | null>: "" or the object URL's file name
  audioContextRef,  \* audioContextRef.current is set
  sourceRef,        \* sourceRef.current: NoSource or its buffer and playbackRate
  audios,           \* Audio elements (line 35) whose metadata load is pending
  loads,            \* handleFileChange calls suspended at an await
  dls,              \* handleDownload calls suspended at an await
  conversions,      \* history: the handleDownload calls that have ended
  budget            \* handler calls the model still admits

(***************************************************************************)
(* State of one encodeWAV call (lines 143-182).                            *)
(***************************************************************************)
VARIABLES
  encPc,       \* "idle" | "loop" | "done" | "threw": position in encodeWAV
  encBuffer,   \* the AudioBuffer argument
  view,        \* the DataView's bytes, a function 0..bufferSize-1 -> 0..255
  offset,      \* let offset (line 172)
  encI,        \* outer loop index i (line 173)
  encChannel,  \* inner loop index channel (line 174)
  encWrites    \* history: one record per view.setInt16 call, in order, with
               \* the offset written and the loop indices i and channel

appVars ==
  <<audioFile, playbackRate, originalDuration, isProcessing, audioUrl,
    audioContextRef, sourceRef, audios, loads, dls, conversions, budget>>

encVars == <<encPc, encBuffer, view, offset, encI, encChannel, encWrites>>

vars == <<appVars, encVars>>

(***************************************************************************)
(* Arithmetic helpers.                                                     *)
(***************************************************************************)
Min(a, b) == IF a <= b THEN a ELSE b

Max(a, b) == IF a >= b THEN a ELSE b

\* Truncation toward zero of a / b (b > 0): the integer part taken by
\* ToInt16 inside DataView.setInt16.
TruncDiv(a, b) == IF a >= 0 THEN a \div b ELSE -((-a) \div b)

(***************************************************************************)
(* DataView writes and reads (little-endian).                              *)
(***************************************************************************)
SetUint8(v, off, n) == [v EXCEPT ![off] = n % 256]

SetUint16(v, off, n) ==
  [v EXCEPT ![off] = n % 256, ![off + 1] = (n \div 256) % 256]

SetUint32(v, off, n) ==
  [v EXCEPT ![off] = n % 256,
            ![off + 1] = (n \div 256) % 256,
            ![off + 2] = (n \div 65536) % 256,
            ![off + 3] = (n \div 16777216) % 256]

\* setInt16 of an integer n: two's complement modulo 2^16.
SetInt16(v, off, n) ==
  LET u == n % 65536
  IN  [v EXCEPT ![off] = u % 256, ![off + 1] = u \div 256]

GetUint16(v, off) == v[off] + 256 * v[off + 1]

GetUint32(v, off) ==
  v[off] + 256 * v[off + 1] + 65536 * v[off + 2] + 16777216 * v[off + 3]

GetInt16(v, off) ==
  LET u == GetUint16(v, off)
  IN  IF u >= 32768 THEN u - 65536 ELSE u

\* writeString (lines 184-188): one setUint8 per character code.
RECURSIVE writeString(_, _, _)
writeString(v, off, codes) ==
  IF codes = <<>> THEN v
  ELSE writeString(SetUint8(v, off, Head(codes)), off + 1, Tail(codes))

RIFF == <<82, 73, 70, 70>>

WAVE == <<87, 65, 86, 69>>

FMT == <<102, 109, 116, 32>>

DATA == <<100, 97, 116, 97>>

(***************************************************************************)
(* encodeWAV, lines 144-169: sizes, allocation and the 44-byte header.     *)
(***************************************************************************)
bitsPerSample == 16

\* The byte rate without the division by 8.
byteRate_Bits(buffer) ==
  buffer.sampleRate * buffer.numberOfChannels * bitsPerSample

byteRate(buffer) ==
  (buffer.sampleRate * buffer.numberOfChannels * bitsPerSample) \div 8

blockAlign(buffer) == (buffer.numberOfChannels * bitsPerSample) \div 8

dataSize(buffer) == buffer.length * buffer.numberOfChannels * 2

bufferSize(buffer) == 44 + dataSize(buffer)

\* new ArrayBuffer(bufferSize): zero-filled.
NewArrayBuffer(n) == [k \in 0 .. n - 1 |-> 0]

\* Lines 157-169 on the first 44 bytes of the buffer.
HeaderBytes(buffer) ==
  LET v0  == NewArrayBuffer(44)
      v1  == writeString(v0, 0, RIFF)
      v2  == SetUint32(v1, 4, 36 + dataSize(buffer))
      v3  == writeString(v2, 8, WAVE)
      v4  == writeString(v3, 12, FMT)
      v5  == SetUint32(v4, 16, 16)
      v6  == SetUint16(v5, 20, 1)
      v7  == SetUint16(v6, 22, buffer.numberOfChannels)
      v8  == SetUint32(v7, 24, buffer.sampleRate)
      v9  == SetUint32(v8, 28, byteRate(buffer))
      v10 == SetUint16(v9, 32, blockAlign(buffer))
      v11 == SetUint16(v10, 34, bitsPerSample)
      v12 == writeString(v11, 36, DATA)
  IN  SetUint32(v12, 40, dataSize(buffer))

\* Lines 152-169: the zero-filled buffer of bufferSize bytes with its header.
WriteHeader(buffer) ==
  [k \in 0 .. bufferSize(buffer) - 1 |->
    IF k < 44 THEN HeaderBytes(buffer)[k] ELSE 0]

(***************************************************************************)
(* encodeWAV, lines 175-176: one sample, held in units of 1/SampleDen.     *)
(***************************************************************************)
\* Math.max(-1, Math.min(1, s))
ClampSample(s) == Max(-SampleDen, Min(SampleDen, s))

\* 0x8000 for both signs.
ConvertSample_Symmetric(s) == TruncDiv(ClampSample(s) * 32768, SampleDen)

\* sample < 0 ? sample * 0x8000 : sample * 0x7fff, then setInt16's
\* truncation toward zero.
ConvertSample(s) ==
  LET sample == ClampSample(s)
  IN  IF sample < 0 THEN TruncDiv(sample * 32768, SampleDen)
      ELSE TruncDiv(sample * 32767, SampleDen)

(***************************************************************************)
(* Inputs of the encoder: AudioBuffers with 1..MaxChannels channels and    *)
(* 1..MaxFrames frames (an AudioBuffer has at least one frame), at the     *)
(* sample rates below, whose samples run through SampleVals from a         *)
(* starting point, by a step: every value occurs at every position and     *)
(* neighbouring positions differ.                                          *)
(***************************************************************************)
SampleVals ==
  << -(SampleDen + SampleDen \div 2), -SampleDen, -3, 0, 3, SampleDen,
     SampleDen + SampleDen \div 2 >>

SampleRates == {8000, 44100, 96000}

PatternData(nc, len, seed, step) ==
  [c \in 1 .. nc |->
    [i \in 1 .. len |->
      SampleVals[((seed + step * ((i - 1) * nc + (c - 1))) % Len(SampleVals)) + 1]]]

EncBuffers ==
  { [numberOfChannels |-> nc, sampleRate |-> sr, length |-> len,
     data |-> PatternData(nc, len, seed, step)] :
      nc \in 1 .. MaxChannels, sr \in SampleRates, len \in 1 .. MaxFrames,
      seed \in 0 .. Len(SampleVals) - 1, step \in 1 .. 3 }

NoBuffer == [numberOfChannels |-> 0, sampleRate |-> 0, length |-> 0, data |-> <<>>]

\* buffer.getChannelData(channel)[i]
ChannelSample(buffer, channel, i) == buffer.data[channel + 1][i + 1]

\* offset += 1
AdvanceOffset_Byte(off) == off + 1

\* offset += 2 (line 177)
AdvanceOffset(off) == off + 2

(***************************************************************************)
(* encodeWAV as a process: call, one inner-loop iteration, return.         *)
(***************************************************************************)
EncInit ==
  /\ encPc = "idle"
  /\ encBuffer = NoBuffer
  /\ view = <<>>
  /\ offset = 0
  /\ encI = 0
  /\ encChannel = 0
  /\ encWrites = <<>>

\* Lines 143-172: the call, up to "let offset = 44".
EncodeBegin(buffer) ==
  /\ encPc = "idle"
  /\ encPc' = "loop"
  /\ encBuffer' = buffer
  /\ view' = WriteHeader(buffer)
  /\ offset' = 44
  /\ encI' = 0
  /\ encChannel' = 0
  /\ encWrites' = <<>>
  /\ UNCHANGED appVars

\* Lines 174-178: one iteration of the inner loop.  setInt16 throws a
\* RangeError when the two bytes do not lie inside the view.
EncodeSample ==
  /\ encPc = "loop"
  /\ encI < encBuffer.length
  /\ encChannel < encBuffer.numberOfChannels
  /\ IF offset + 2 > bufferSize(encBuffer)
       THEN /\ encPc' = "threw"
            /\ UNCHANGED <<encBuffer, view, offset, encI, encChannel, encWrites>>
       ELSE /\ view' = SetInt16(view, offset,
                         ConvertSample(ChannelSample(encBuffer, encChannel, encI)))
            /\ encWrites' = Append(encWrites,
                 [offset |-> offset, i |-> encI, channel |-> encChannel])
            /\ offset' = AdvanceOffset(offset)
            /\ IF encChannel + 1 < encBuffer.numberOfChannels
                 THEN /\ encChannel' = encChannel + 1
                      /\ encI' = encI
                 ELSE /\ encChannel' = 0
                      /\ encI' = encI + 1
            /\ UNCHANGED <<encPc, encBuffer>>
  /\ UNCHANGED appVars

\* Lines 173, 181: the outer loop ends and the Blob is returned.
EncodeReturn ==
  /\ encPc = "loop"
  /\ encI >= encBuffer.length
  /\ encPc' = "done"
  /\ UNCHANGED <<encBuffer, view, offset, encI, encChannel, encWrites>>
  /\ UNCHANGED appVars

(***************************************************************************)
(* The slider (lines 234-241) and the frame size (line 86).                *)
(***************************************************************************)
RateDen == 10

MinRate == 5

MaxRate == 20

InitialRate == 10

SliderValues == MinRate .. MaxRate

frameSize == 2048

(***************************************************************************)
(* Files the user can select.  A file is described by what the platform    *)
(* makes of it: whether the Audio element can load its metadata            *)
(* (playable), whether decodeAudioData accepts its format (decodable), and *)
(* the decoded AudioBuffer's channel count, length and sample rate.  Each  *)
(* channel holds one constant level, in units of 1/SampleDen.              *)
(***************************************************************************)
File(name, playable, decodable, levels, length) ==
  [name |-> name, playable |-> playable, decodable |-> decodable,
   numberOfChannels |-> Len(levels), length |-> length, sampleRate |-> 44100,
   levels |-> levels]

NoFile == File("", FALSE, FALSE, <<>>, 0)

\* Files of the concurrency model: two stereo files that agree on channel 0
\* and differ on channel 1, a file only the Audio element can read and a
\* file only decodeAudioData can read.
Files ==
  { File("a.wav", TRUE, TRUE, <<3, 3>>, MaxBlocks * frameSize),
    File("b.wav", TRUE, TRUE, <<3, -3>>, MaxBlocks * frameSize),
    File("c.m4a", TRUE, FALSE, <<3>>, frameSize),
    File("d.ogg", FALSE, TRUE, <<3>>, frameSize) }

UIRates == {MinRate, InitialRate, MaxRate}

\* Files of the pipeline model: every length next to a multiple of the
\* frame size, empty audio included, mono and stereo.
Lengths ==
  { n \in { b * frameSize + d : b \in 0 .. MaxBlocks, d \in {-1, 0, 1} } : n >= 0 }

PipeFiles ==
  { File("in.wav", TRUE, TRUE, levels, n) :
      levels \in {<<3>>, <<3, -3>>}, n \in Lengths }

(***************************************************************************)
(* decodeAudioData (lines 44, 72).  It rejects what it cannot decode.  For *)
(* audio of zero frames the platform either rejects or resolves with an    *)
(* empty buffer: both are admitted.                                        *)
(***************************************************************************)
CanResolve(file) == file.decodable

CanReject(file) == ~file.decodable \/ file.length = 0

Decoded(file) ==
  [numberOfChannels |-> file.numberOfChannels, sampleRate |-> file.sampleRate,
   length |-> file.length, levels |-> file.levels]

NoAudioBuffer ==
  [numberOfChannels |-> 0, sampleRate |-> 0, length |-> 0, levels |-> <<>>]

NoSource == [buffer |-> NoAudioBuffer, playbackRate |-> 0]

(***************************************************************************)
(* Lines 75-79: Math.ceil(audioBuffer.length / playbackRate), with the     *)
(* rate in tenths.  The OfflineAudioContext constructor throws a           *)
(* NotSupportedError for a length of 0.                                    *)
(***************************************************************************)
CeilDiv(a, b) == (a + b - 1) \div b

OfflineLength(length, rate) == CeilDiv(length * RateDen, rate)

ConstructorThrows(length) == length = 0

(***************************************************************************)
(* The audio graph (lines 82-87, 115-117).  The source plays audioBuffer   *)
(* at its own rate from time 0 and is silent after its last frame.  The    *)
(* ScriptProcessorNode has one input channel and one output channel        *)
(* (createScriptProcessor(frameSize, 1, 1)): its input is the down-mix of  *)
(* the source's channels (stereo to mono: 0.5 * (L + R)), and its one      *)
(* output channel is copied to every channel of the destination.  The mix  *)
(* is held in units of 1 / (2 * SampleDen).                                *)
(***************************************************************************)
Downmix(buffer) ==
  IF buffer.numberOfChannels = 1 THEN 2 * buffer.levels[1]
  ELSE buffer.levels[1] + buffer.levels[2]

\* e.inputBuffer.getChannelData(0) at index i of the rendered stream.
InputSample(buffer, i) == IF i < buffer.length THEN Downmix(buffer) ELSE 0

\* The first n samples of the processor's input, in a canonical form: a run
\* of the mix, then silence.
InputPrefix(buffer, n) ==
  LET run == IF Downmix(buffer) = 0 THEN 0 ELSE Min(n, buffer.length)
  IN  [level |-> IF run = 0 THEN 0 ELSE Downmix(buffer),
       run |-> run, silence |-> n - run]

(***************************************************************************)
(* processor.onaudioprocess (lines 95-112).  phase, lastPhase, sumPhase    *)
(* and expectedPhase are locals of one handleDownload call, 0 at its start *)
(* (lines 89-92), and omega depends on the sample rate (line 93).  The     *)
(* arithmetic on doubles (Math.atan2, Math.round, Math.cos) is not         *)
(* computed: the value written to outputData at stream index i is a        *)
(* function of playbackRate, the sample rate and the input samples         *)
(* 0..i the loop has consumed, and is represented by exactly these.        *)
(***************************************************************************)
EngineOutput(buffer, rate, i) ==
  [sampleRate |-> buffer.sampleRate, playbackRate |-> rate,
   consumed |-> InputPrefix(buffer, i + 1)]

\* A frame no event wrote: 0.0.
Silence ==
  [sampleRate |-> 0, playbackRate |-> 0,
   consumed |-> [level |-> 0, run |-> 0, silence |-> 0]]

\* One audioprocess event, the k-th (from 0): the source frames it reads
\* and the output frames it deposits, clipped to the rendered length.
FrameRecord(k, sourceLength, renderLength) ==
  [readFrom |-> Min(k * frameSize, sourceLength),
   readTo |-> Min((k + 1) * frameSize, sourceLength),
   writeFrom |-> k * frameSize,
   writeTo |-> Min((k + 1) * frameSize, renderLength)]

\* renderedBuffer (line 120): the destination's channels all carry the
\* processor's output where an event deposited it, silence elsewhere.
Rendered(d) ==
  [numberOfChannels |-> d.audioBuffer.numberOfChannels,
   sampleRate |-> d.audioBuffer.sampleRate,
   length |-> d.length,
   written |-> IF d.frames = <<>> THEN 0 ELSE d.frames[Len(d.frames)].writeTo,
   source |-> d.audioBuffer,
   playbackRate |-> d.rate]

NoRendered ==
  [numberOfChannels |-> 0, sampleRate |-> 0, length |-> 0, written |-> 0,
   source |-> NoAudioBuffer, playbackRate |-> 0]

\* renderedBuffer.getChannelData(channel)[i]
RenderedSample(r, channel, i) ==
  IF i < r.written THEN EngineOutput(r.source, r.playbackRate, i) ELSE Silence

(***************************************************************************)
(* The handlers.  A handler runs to its next await in one step; React has  *)
(* re-rendered before the next event, so a handler reads the state of the  *)
(* step that starts it (audioFile, playbackRate) and keeps those values    *)
(* across its awaits, while a ref is read afresh.                          *)
(***************************************************************************)
AppInit(fileChanges, downloads) ==
  /\ audioFile = NoFile
  /\ playbackRate = InitialRate
  /\ originalDuration = 0
  /\ isProcessing = FALSE
  /\ audioUrl = ""
  /\ audioContextRef = FALSE
  /\ sourceRef = NoSource
  /\ audios = {}
  /\ loads = {}
  /\ dls = {}
  /\ conversions = <<>>
  /\ budget = [fileChanges |-> fileChanges, downloads |-> downloads]

\* The id of the next handler call.
NextId == budget.fileChanges + budget.downloads

\* handleFileChange, lines 25-43, to the first await.  The file input is
\* disabled while isProcessing (line 224).  new AudioContext() (line 42)
\* can throw; the catch block then runs in the same step.
handleFileChange(file) ==
  /\ ~isProcessing
  /\ budget.fileChanges > 0
  /\ budget' = [budget EXCEPT !.fileChanges = @ - 1]
  /\ audioFile' = file
  /\ audioUrl' = file.name
  /\ audios' = audios \cup {[id |-> NextId, file |-> file]}
  /\ \/ /\ isProcessing' = TRUE
        /\ audioContextRef' = TRUE
        /\ loads' = loads \cup
             {[id |-> NextId, file |-> file, rate |-> playbackRate,
               pc |-> "arrayBuffer"]}
     \/ /\ isProcessing' = FALSE
        /\ UNCHANGED <<audioContextRef, loads>>
  /\ UNCHANGED <<playbackRate, originalDuration, sourceRef, dls, conversions>>
  /\ UNCHANGED encVars

\* Line 27: the change event carries no file.
handleFileChangeNoFile ==
  /\ ~isProcessing
  /\ UNCHANGED vars

\* The loadedmetadata listener, lines 36-39.
loadedmetadata(a) ==
  /\ a \in audios
  /\ a.file.playable
  /\ audios' = audios \ {a}
  /\ originalDuration' = a.file.length
  /\ isProcessing' = FALSE
  /\ UNCHANGED <<audioFile, playbackRate, audioUrl, audioContextRef, sourceRef,
                 loads, dls, conversions, budget>>
  /\ UNCHANGED encVars

\* The Audio element fails to load: it fires error, which has no listener.
audioError(a) ==
  /\ a \in audios
  /\ ~a.file.playable
  /\ audios' = audios \ {a}
  /\ UNCHANGED <<audioFile, playbackRate, originalDuration, isProcessing,
                 audioUrl, audioContextRef, sourceRef, loads, dls, conversions,
                 budget>>
  /\ UNCHANGED encVars

\* Line 43: file.arrayBuffer() resolves.
fileArrayBuffer(l) ==
  /\ l \in loads
  /\ l.pc = "arrayBuffer"
  /\ loads' = (loads \ {l}) \cup {[l EXCEPT !.pc = "decodeAudioData"]}
  /\ UNCHANGED <<audioFile, playbackRate, originalDuration, isProcessing,
                 audioUrl, audioContextRef, sourceRef, audios, dls, conversions,
                 budget>>
  /\ UNCHANGED encVars

\* Lines 44-50: decodeAudioData resolves and the source node is set up.
fileDecoded(l) ==
  /\ l \in loads
  /\ l.pc = "decodeAudioData"
  /\ CanResolve(l.file)
  /\ loads' = loads \ {l}
  /\ sourceRef' = [buffer |-> Decoded(l.file), playbackRate |-> l.rate]
  /\ UNCHANGED <<audioFile, playbackRate, originalDuration, isProcessing,
                 audioUrl, audioContextRef, audios, dls, conversions, budget>>
  /\ UNCHANGED encVars

\* Lines 44, 51-54: decodeAudioData rejects and the catch block runs.
fileDecodeFailed(l) ==
  /\ l \in loads
  /\ l.pc = "decodeAudioData"
  /\ CanReject(l.file)
  /\ loads' = loads \ {l}
  /\ isProcessing' = FALSE
  /\ UNCHANGED <<audioFile, playbackRate, originalDuration, audioUrl,
                 audioContextRef, sourceRef, audios, dls, conversions, budget>>
  /\ UNCHANGED encVars

\* handleSpeedChange, lines 58-64.  The slider is rendered once a file is
\* selected (line 230).
handleSpeedChange(rate) ==
  /\ audioFile # NoFile
  /\ playbackRate' = rate
  /\ UNCHANGED <<audioFile, originalDuration, isProcessing, audioUrl,
                 audioContextRef, sourceRef, audios, loads, dls, conversions,
                 budget>>
  /\ UNCHANGED encVars

(***************************************************************************)
(* handleDownload, lines 66-141.                                           *)
(***************************************************************************)
\* What the ended call leaves behind: the download it triggered (the Blob's
\* size and header, lines 123-132) or the error its catch block logged.
Ended(d, outcome, rendered) ==
  [file |-> d.file, rate |-> d.rate, outcome |-> outcome,
   audioBuffer |-> d.audioBuffer, frames |-> d.frames, rendered |-> rendered,
   byteLength |-> IF outcome = "download" THEN bufferSize(rendered) ELSE 0,
   header |-> IF outcome = "download" THEN HeaderBytes(rendered) ELSE <<>>]

\* Lines 66-71, to the first await.  The button is rendered once a file is
\* selected (line 230) and disabled while isProcessing (line 269).
handleDownload ==
  /\ audioFile # NoFile
  /\ ~isProcessing
  /\ \/ /\ ~audioContextRef
        /\ UNCHANGED vars
     \/ /\ audioContextRef
        /\ budget.downloads > 0
        /\ budget' = [budget EXCEPT !.downloads = @ - 1]
        /\ isProcessing' = TRUE
        /\ dls' = dls \cup
             {[id |-> NextId, file |-> audioFile, rate |-> playbackRate,
               pc |-> "arrayBuffer", audioBuffer |-> NoAudioBuffer,
               length |-> 0, frames |-> <<>>]}
        /\ UNCHANGED <<audioFile, playbackRate, originalDuration, audioUrl,
                       audioContextRef, sourceRef, audios, loads, conversions>>
        /\ UNCHANGED encVars

\* Line 71: audioFile.arrayBuffer() resolves.
downloadArrayBuffer(d) ==
  /\ d \in dls
  /\ d.pc = "arrayBuffer"
  /\ dls' = (dls \ {d}) \cup {[d EXCEPT !.pc = "decodeAudioData"]}
  /\ UNCHANGED <<audioFile, playbackRate, originalDuration, isProcessing,
                 audioUrl, audioContextRef, sourceRef, audios, loads,
                 conversions, budget>>
  /\ UNCHANGED encVars

\* Lines 72, 136-140: decodeAudioData rejects; catch and finally run.
downloadDecodeFailed(d) ==
  /\ d \in dls
  /\ d.pc = "decodeAudioData"
  /\ CanReject(d.file)
  /\ dls' = dls \ {d}
  /\ conversions' = Append(conversions, Ended(d, "error", NoRendered))
  /\ isProcessing' = FALSE
  /\ UNCHANGED <<audioFile, playbackRate, originalDuration, audioUrl,
                 audioContextRef, sourceRef, audios, loads, budget>>
  /\ UNCHANGED encVars

\* Lines 72-120: decodeAudioData resolves; the offline context and the
\* graph are built and rendering starts.  When the constructor throws,
\* catch and finally run in the same step.
downloadDecoded(d) ==
  /\ d \in dls
  /\ d.pc = "decodeAudioData"
  /\ CanResolve(d.file)
  /\ LET audioBuffer == Decoded(d.file)
         length == OfflineLength(audioBuffer.length, d.rate)
         e == [d EXCEPT !.audioBuffer = audioBuffer, !.length = length,
                        !.pc = "startRendering"]
     IN  IF ConstructorThrows(length)
           THEN /\ dls' = dls \ {d}
                /\ conversions' = Append(conversions, Ended(e, "error", NoRendered))
                /\ isProcessing' = FALSE
           ELSE /\ dls' = (dls \ {d}) \cup {e}
                /\ UNCHANGED <<conversions, isProcessing>>
  /\ UNCHANGED <<audioFile, playbackRate, originalDuration, audioUrl,
                 audioContextRef, sourceRef, audios, loads, budget>>
  /\ UNCHANGED encVars

\* Lines 95-112: one audioprocess event.  The processor is called with each
\* block of frameSize frames of the rendered stream, a last block that the
\* rendered length cuts short included, and its output is deposited without
\* delay.  (A platform that drops the short last block, or delays the
\* output by a block, reads and deposits less, never more.)
onaudioprocess(d) ==
  /\ d \in dls
  /\ d.pc = "startRendering"
  /\ Len(d.frames) * frameSize < d.length
  /\ dls' = (dls \ {d}) \cup
       {[d EXCEPT !.frames =
           Append(@, FrameRecord(Len(d.frames), d.audioBuffer.length, d.length))]}
  /\ UNCHANGED <<audioFile, playbackRate, originalDuration, isProcessing,
                 audioUrl, audioContextRef, sourceRef, audios, loads,
                 conversions, budget>>
  /\ UNCHANGED encVars

\* Lines 120-140: startRendering() resolves once the rendered length is
\* reached; the buffer is encoded, the download is triggered and the
\* finally block runs.
renderingDone(d) ==
  /\ d \in dls
  /\ d.pc = "startRendering"
  /\ Len(d.frames) * frameSize >= d.length
  /\ dls' = dls \ {d}
  /\ conversions' = Append(conversions, Ended(d, "download", Rendered(d)))
  /\ isProcessing' = FALSE
  /\ UNCHANGED <<audioFile, playbackRate, originalDuration, audioUrl,
                 audioContextRef, sourceRef, audios, loads, budget>>
  /\ UNCHANGED encVars

(***************************************************************************)
(* The specifications.  Spec: the handlers over Files, interleaved.        *)
(* SpecPipe: one selection and one conversion over PipeFiles and every     *)
(* slider value.  SpecEnc: encodeWAV over EncBuffers.                      *)
(***************************************************************************)
Next ==
  \/ \E file \in Files : handleFileChange(file)
  \/ handleFileChangeNoFile
  \/ \E a \in audios : loadedmetadata(a)
  \/ \E a \in audios : audioError(a)
  \/ \E l \in loads : fileArrayBuffer(l)
  \/ \E l \in loads : fileDecoded(l)
  \/ \E l \in loads : fileDecodeFailed(l)
  \/ \E rate \in UIRates : handleSpeedChange(rate)
  \/ handleDownload
  \/ \E d \in dls : downloadArrayBuffer(d)
  \/ \E d \in dls : downloadDecodeFailed(d)
  \/ \E d \in dls : downloadDecoded(d)
  \/ \E d \in dls : onaudioprocess(d)
  \/ \E d \in dls : renderingDone(d)

Init == AppInit(MaxFileChanges, MaxDownloads) /\ EncInit

Spec == Init /\ [][Next]_vars

PipeNext ==
  \/ \E file \in PipeFiles : handleFileChange(file)
  \/ \E a \in audios : loadedmetadata(a)
  \/ \E l \in loads : fileArrayBuffer(l)
  \/ \E l \in loads : fileDecoded(l)
  \/ \E l \in loads : fileDecodeFailed(l)
  \/ \E rate \in SliderValues : handleSpeedChange(rate)
  \/ handleDownload
  \/ \E d \in dls : downloadArrayBuffer(d)
  \/ \E d \in dls : downloadDecodeFailed(d)
  \/ \E d \in dls : downloadDecoded(d)
  \/ \E d \in dls : onaudioprocess(d)
  \/ \E d \in dls : renderingDone(d)

PipeInit == AppInit(1, 1) /\ EncInit

SpecPipe == PipeInit /\ [][PipeNext]_vars

EncNext ==
  \/ \E buffer \in EncBuffers : EncodeBegin(buffer)
  \/ EncodeSample
  \/ EncodeReturn

EncodeInit == AppInit(0, 0) /\ EncInit

SpecEnc == EncodeInit /\ [][EncNext]_vars

(***************************************************************************)
(* Properties of encodeWAV, under SpecEnc.                                 *)
(***************************************************************************)
Called == encPc # "idle"

numChannels == encBuffer.numberOfChannels

frameCount == encBuffer.length

\* C2: the byte stream of encodeWAV is 44 + dataSize bytes long and its
\* header fields, read back from the bytes, are consistent: Subchunk2Size =
\* dataSize = frameCount * NumChannels * 2, ChunkSize = 36 + dataSize,
\* ByteRate = SampleRate * NumChannels * 2, BlockAlign = NumChannels * 2,
\* BitsPerSample = 16, AudioFormat = 1, Subchunk1Size = 16, and NumChannels
\* and SampleRate are the buffer's.
C2_HeaderConsistent ==
  Called =>
    /\ DOMAIN view = 0 .. (44 + frameCount * numChannels * 2) - 1
    /\ GetUint32(view, 40) = frameCount * numChannels * 2
    /\ GetUint32(view, 4) = 36 + GetUint32(view, 40)
    /\ GetUint32(view, 28) = GetUint32(view, 24) * GetUint16(view, 22) * 2
    /\ GetUint16(view, 32) = GetUint16(view, 22) * 2
    /\ GetUint16(view, 34) = 16
    /\ GetUint16(view, 20) = 1
    /\ GetUint32(view, 16) = 16
    /\ GetUint16(view, 22) = numChannels
    /\ GetUint32(view, 24) = encBuffer.sampleRate

\* A stereo buffer of two frames has been encoded at 96 kHz.
C2_Witness ==
  /\ encPc = "done"
  /\ numChannels = 2
  /\ frameCount = 2
  /\ encBuffer.sampleRate = 96000

\* v is s (in units of 1/SampleDen) clamped to [-1, 1], scaled by 32768
\* when negative and by 32767 otherwise, and truncated toward zero.
IsScaledSample(v, s) ==
  LET c == IF s > SampleDen THEN SampleDen
           ELSE IF s < -SampleDen THEN -SampleDen ELSE s
  IN  IF c < 0
        THEN /\ v <= 0
             /\ (-v) * SampleDen <= (-c) * 32768
             /\ (-c) * 32768 < (-v + 1) * SampleDen
        ELSE /\ v >= 0
             /\ v * SampleDen <= c * 32767
             /\ c * 32767 < (v + 1) * SampleDen

\* The sample a setInt16 call converted, and the integer its bytes hold.
WrittenSample(w) == ChannelSample(encBuffer, w.channel, w.i)

WrittenValue(w) == GetInt16(view, w.offset)

\* C3: every sample is written as the 16-bit signed integer got by clamping
\* it to [-1, 1], scaling by 32768 (negative) or 32767 (non-negative) and
\* truncating toward zero; the value lies in [-32768, 32767], -1.0 gives
\* -32768, +1.0 gives 32767 and 0 gives 0: nothing wraps around.
C3_SampleConversion ==
  \A k \in 1 .. Len(encWrites) :
    LET w == encWrites[k]
    IN  /\ IsScaledSample(WrittenValue(w), WrittenSample(w))
        /\ WrittenValue(w) \in -32768 .. 32767
        /\ WrittenSample(w) = -SampleDen => WrittenValue(w) = -32768
        /\ WrittenSample(w) = SampleDen => WrittenValue(w) = 32767
        /\ WrittenSample(w) = 0 => WrittenValue(w) = 0

\* An encoding has written a sample above +1.0, a sample below -1.0 and a
\* negative sample whose scaled value is not an integer.
C3_Witness ==
  /\ encPc = "done"
  /\ \E k \in 1 .. Len(encWrites) : WrittenSample(encWrites[k]) > SampleDen
  /\ \E k \in 1 .. Len(encWrites) : WrittenSample(encWrites[k]) < -SampleDen
  /\ \E k \in 1 .. Len(encWrites) :
       /\ WrittenSample(encWrites[k]) = -3
       /\ WrittenValue(encWrites[k]) * SampleDen # -3 * 32768

\* C6: the payload is interleaved frame by frame in channel order: the
\* sample of channel c at frame i occupies the two bytes at offset
\* 44 + 2 * (i * NumChannels + c), every byte pair of the payload is written
\* exactly once, and the write offset ends at 44 + dataSize without ever
\* leaving the allocated buffer.
C6_Interleaved ==
  /\ encPc # "threw"
  /\ Called =>
       /\ offset = 44 + 2 * Len(encWrites)
       /\ offset <= 44 + frameCount * numChannels * 2
       /\ offset <= Cardinality(DOMAIN view)
  /\ \A k \in 1 .. Len(encWrites) :
       LET w == encWrites[k]
       IN  /\ w.i \in 0 .. frameCount - 1
           /\ w.channel \in 0 .. numChannels - 1
           /\ w.offset = 44 + 2 * (w.i * numChannels + w.channel)
           /\ WrittenValue(w) = ConvertSample(WrittenSample(w))
           /\ \A j \in 1 .. Len(encWrites) :
                j # k => encWrites[j].offset # w.offset
  /\ encPc = "done" =>
       /\ offset = 44 + frameCount * numChannels * 2
       /\ \A i \in 0 .. frameCount - 1 : \A c \in 0 .. numChannels - 1 :
            \E k \in 1 .. Len(encWrites) :
              /\ encWrites[k].i = i
              /\ encWrites[k].channel = c
              /\ encWrites[k].offset = 44 + 2 * (i * numChannels + c)

\* A stereo buffer of two frames has been written whole, its two channels
\* differing in both frames.
C6_Witness ==
  /\ encPc = "done"
  /\ numChannels = 2
  /\ frameCount = 2
  /\ Len(encWrites) = 4
  /\ \A i \in 0 .. 1 :
       ChannelSample(encBuffer, 0, i) # ChannelSample(encBuffer, 1, i)

(***************************************************************************)
(* Properties of the conversion, under SpecPipe.                           *)
(***************************************************************************)
Ends == {conversions[k] : k \in 1 .. Len(conversions)}

\* L is ceil(n / rate), the rate in tenths.
IsCeilOfQuotient(L, n, rate) ==
  /\ L * rate >= n * RateDen
  /\ (L - 1) * rate < n * RateDen

\* C1: for every valid input (at least one channel, N >= 0 frames) and every
\* slider value, the conversion produces a stretched buffer whose every
\* channel has exactly ceil(N / rate) samples, N samples at rate 1.0.
C1_StretchedLength ==
  \A c \in Ends :
    (c.file.decodable /\ c.file.numberOfChannels >= 1 /\ c.rate \in SliderValues)
      => /\ c.outcome = "download"
         /\ c.rendered.numberOfChannels = c.file.numberOfChannels
         /\ IsCeilOfQuotient(c.rendered.length, c.file.length, c.rate)
         /\ c.rate = RateDen => c.rendered.length = c.file.length

\* C1, for the buffers the conversion does produce: each has
\* ceil(N / rate) samples per channel.
ProducedLength ==
  \A c \in Ends :
    c.outcome = "download"
      => /\ c.rendered.numberOfChannels = c.file.numberOfChannels
         /\ IsCeilOfQuotient(c.rendered.length, c.file.length, c.rate)
         /\ c.rate = RateDen => c.rendered.length = c.file.length

\* C5: a single-channel input of length 0, at any slider value, converts
\* without error to a channel of length 0 and a byte stream of 44 bytes
\* with Subchunk2Size 0 and ChunkSize 36.
C5_EmptyInput ==
  \A c \in Ends :
    (c.file.decodable /\ c.file.numberOfChannels = 1 /\ c.file.length = 0)
      => /\ c.outcome = "download"
         /\ c.rendered.length = 0
         /\ c.byteLength = 44
         /\ GetUint32(c.header, 40) = 0
         /\ GetUint32(c.header, 4) = 36

\* C7: for every slider value the frames of 2048 samples cover the input:
\* every index 0..N-1 is read by some frame before the conversion ends, the
\* frames are deposited one after the other from 0, and nothing is
\* deposited past the rendered length ceil(N / rate).
C7_FramesCoverInput ==
  \A c \in Ends :
    c.outcome = "download"
      => /\ \A j \in 0 .. c.audioBuffer.length - 1 :
              \E q \in 1 .. Len(c.frames) :
                c.frames[q].readFrom <= j /\ j < c.frames[q].readTo
         /\ \A q \in 1 .. Len(c.frames) :
              /\ c.frames[q].writeFrom =
                   (IF q = 1 THEN 0 ELSE c.frames[q - 1].writeTo)
              /\ c.frames[q].writeTo <= c.rendered.length
         /\ IsCeilOfQuotient(c.rendered.length, c.audioBuffer.length, c.rate)

\* C7, without the coverage of the input: the frames are deposited one
\* after the other and never past the rendered length.
DepositsInOrder ==
  \A c \in Ends :
    c.outcome = "download"
      => \A q \in 1 .. Len(c.frames) :
           /\ c.frames[q].writeFrom =
                (IF q = 1 THEN 0 ELSE c.frames[q - 1].writeTo)
           /\ c.frames[q].writeTo <= c.rendered.length

(***************************************************************************)
(* Properties of the handlers, under Spec.                                 *)
(***************************************************************************)
\* Two ended conversions (two different ones: a conversion agrees with
\* itself) whose inputs agree on channel ch, the sample rate, the length and
\* the rate.
AgreeOnChannel(x, y, ch) ==
  /\ x # y
  /\ x.outcome = "download"
  /\ y.outcome = "download"
  /\ x.rate = y.rate
  /\ x.audioBuffer.sampleRate = y.audioBuffer.sampleRate
  /\ x.audioBuffer.length = y.audioBuffer.length
  /\ ch < x.audioBuffer.numberOfChannels
  /\ ch < y.audioBuffer.numberOfChannels
  /\ x.audioBuffer.levels[ch + 1] = y.audioBuffer.levels[ch + 1]

\* C8: output channel c is computed from input channel c alone: two
\* conversions whose inputs agree on channel c, the sample rate and the
\* rate produce the same output channel c, whatever the other channels hold.
C8_ChannelIndependence ==
  \A x \in Ends : \A y \in Ends : \A ch \in 0 .. 1 :
    AgreeOnChannel(x, y, ch)
      => \A i \in 0 .. x.rendered.length - 1 :
           RenderedSample(x.rendered, ch, i) = RenderedSample(y.rendered, ch, i)

\* C9: no second conversion starts while one is in flight: from the moment
\* handleDownload sets isProcessing until its finally block, isProcessing
\* stays true.
C9_OneConversionInFlight ==
  /\ Cardinality(dls) <= 1
  /\ dls # {} => isProcessing

\* C10: isProcessing, once set, is reset when the pending asynchronous
\* steps have settled, whether they succeeded or failed: with nothing
\* pending the page is not left in the processing state.
C10_ProcessingEnds ==
  (audios = {} /\ loads = {} /\ dls = {}) => ~isProcessing

=============================================================================
